---- MODULE Spec2Model ----
(***************************************************************************)
(* A model of src/main.py of STGCN: the adjacency preprocessing            *)
(* (data_preprocess), the 6:2:2 split and the sliding-window sample        *)
(* construction (build_dataset, __main__), and the training loop           *)
(* (train_model).                                                          *)
(*                                                                         *)
(* Three specifications share the variables:                               *)
(*   SpecGraph  data_preprocess: distance rows -> adjacency matrix A       *)
(*   SpecData   __main__: graph signal X -> split -> three build_dataset   *)
(*   Spec       train_model: the epoch loop                                *)
(*                                                                         *)
(* numpy arrays are functions over 0-based index ranges, except the time   *)
(* axis of the graph signal, which is a sequence (1-based) so that slices  *)
(* are SubSeq; Slice(s, a, b) is Python's s[a:b].                          *)
(***************************************************************************)
EXTENDS Integers, Sequences, FiniteSets, TLC

\* ------------------------------------------------------------------ bounds
\* number of vertices of the modelled graph (307 in the source)
num_of_vertices == 3
\* number of rows read from the distance file
MaxRows == 3
\* distances are the integers 0..MaxDist
MaxDist == 2
\* length of the time axis of the graph signal
MaxT == 100
\* epochs of one run of train_model (10 in the source)
MaxEpochs == 12

\* ------------------------------------------------------- program constants
num_of_features == 3
DefaultTrainPoints == 12
DefaultPredictPoints == 1
batch_size == 32
decay_interval == 5
\* epsilon = 0.5: exp(-q) < epsilon iff q > ln 2, and 693147/10^6 < ln 2 < 693148/10^6
Ln2Micro == 693147
Micro == 1000000
checkpoint_interval == 5
\* rationals are pairs <<numerator, denominator>>
learning_rate == <<1, 100>>
decay_rate == <<7, 10>>

VARIABLES
    \* data_preprocess (adjacency part)
    gpc, A, rows, tmp, var, gexc,
    \* __main__ (split and build_dataset); the window configuration
    dpc, X, num_points_for_train, num_points_for_predict,
    split_line1, split_line2,
    train_original_data, val_original_data, test_original_data,
    training_set, val_set, testing_set, dexc,
    \* train_model
    pc, epochs, epoch, n_train, n_val, n_test, bi,
    train_loss_list_tmp, val_loss_list_tmp, test_loss_list_tmp,
    train_loss_list, val_loss_list, test_loss_list,
    lr, params, step_lr, step_epoch, checkpoints, results_log, exc

graphVars == <<gpc, A, rows, tmp, var, gexc>>
configVars == <<num_points_for_train, num_points_for_predict>>
dataVars == <<dpc, X, split_line1, split_line2,
              train_original_data, val_original_data, test_original_data,
              training_set, val_set, testing_set, dexc>>
trainVars == <<pc, epochs, epoch, n_train, n_val, n_test, bi,
               train_loss_list_tmp, val_loss_list_tmp, test_loss_list_tmp,
               train_loss_list, val_loss_list, test_loss_list,
               lr, params, step_lr, step_epoch, checkpoints, results_log, exc>>
vars == <<graphVars, configVars, dataVars, trainVars>>

Vertices == 0 .. (num_of_vertices - 1)
Features == 0 .. (num_of_features - 1)

Max(a, b) == IF a >= b THEN a ELSE b
Min(a, b) == IF a <= b THEN a ELSE b

\* Python's s[a:b] for 0 <= a, 0 <= b (the end is clamped to the length)
Slice(s, a, b) == SubSeq(s, a + 1, Min(b, Len(s)))

\* ------------------------------------------------- idle parts of the state
NoDataset == [features |-> <<>>, target |-> <<>>]
NoSignal == [v \in Vertices |-> [f \in Features |-> <<>>]]

GraphIdle ==
    /\ gpc = "idle"
    /\ A = [i \in Vertices |-> [j \in Vertices |-> 0]]
    /\ rows = 0
    /\ tmp = <<>>
    /\ var = <<"nan", 0, 1>>
    /\ gexc = "none"

DataIdle ==
    /\ dpc = "idle"
    /\ X = NoSignal
    /\ split_line1 = 0
    /\ split_line2 = 0
    /\ train_original_data = NoSignal
    /\ val_original_data = NoSignal
    /\ test_original_data = NoSignal
    /\ training_set = NoDataset
    /\ val_set = NoDataset
    /\ testing_set = NoDataset
    /\ dexc = "none"

TrainIdle ==
    /\ pc = "idle"
    /\ epochs = 0
    /\ epoch = 0
    /\ n_train = 0
    /\ n_val = 0
    /\ n_test = 0
    /\ bi = 0
    /\ train_loss_list_tmp = <<>>
    /\ val_loss_list_tmp = <<>>
    /\ test_loss_list_tmp = <<>>
    /\ train_loss_list = <<>>
    /\ val_loss_list = <<>>
    /\ test_loss_list = <<>>
    /\ lr = learning_rate
    /\ params = 0
    /\ step_lr = learning_rate
    /\ step_epoch = 0
    /\ checkpoints = <<>>
    /\ results_log = <<>>
    /\ exc = "none"

\* --------------------------------------------- __main__: split and windows
\* the window configurations checked: the source's (12, 1) and two smaller
WindowConfigs == {<<DefaultTrainPoints, DefaultPredictPoints>>, <<5, 1>>, <<2, 2>>}

\* the reading of signal f of vertex v at time t (0-based), kept symbolic
Cell(v, f, t) == v * 10000 + f * 1000 + t
TimeOf(c) == c % 1000

\* X of data_preprocess: X[i, 0, :] = flow, X[i, 1, :] = occupy, X[i, 2, :] = speed
GraphSignal(T) ==
    [v \in Vertices |-> [f \in Features |-> [t \in 1 .. T |-> Cell(v, f, t - 1)]]]

\* graph_signal_matrix.shape[2]
Shape2(M) == Len(M[0][0])

\* faulty variant: the slice takes its end index too (M[:, :, a:b+1])
TimeSlice_InclusiveEnd(M, a, b) ==
    [v \in Vertices |-> [f \in Features |-> Slice(M[v][f], a, b + 1)]]

\* M[:, :, a:b]
TimeSlice(M, a, b) == [v \in Vertices |-> [f \in Features |-> Slice(M[v][f], a, b)]]

\* int(T * 0.6) and int(T * 0.8): the double product truncated; for every
\* T in 0 .. 139 it equals the exact floor of 6T/10 and 8T/10
SplitLine(T, tenths) == (T * tenths) \div 10

\* faulty variant: range(T - (H+P)), the last window is missing
WindowIndices_MissingLast(T) ==
    LET span == num_points_for_train + num_points_for_predict
        n == Max(T - span, 0)
    IN [k \in 1 .. n |-> <<k - 1, k - 1 + span>>]

\* the list `indices` of build_dataset: (i, i + H + P) for i in range(T - (H+P) + 1)
WindowIndices(T) ==
    LET span == num_points_for_train + num_points_for_predict
        n == Max(T - span + 1, 0)
    IN [k \in 1 .. n |-> <<k - 1, k - 1 + span>>]

\* graph_signal_matrix[:, :, i : i + H].transpose((1, 0, 2))
WindowFeatures(M, i) ==
    [f \in Features |-> [v \in Vertices |->
        Slice(M[v][f], i, i + num_points_for_train)]]

\* graph_signal_matrix[:, 0, i + H : j]
WindowTarget(M, i, j) ==
    [v \in Vertices |-> Slice(M[v][0], i + num_points_for_train, j)]

\* build_dataset; np.concatenate of an empty list raises ValueError
build_dataset(graph_signal_matrix) ==
    LET indices == WindowIndices(Shape2(graph_signal_matrix))
        features == [k \in 1 .. Len(indices) |->
                        WindowFeatures(graph_signal_matrix, indices[k][1])]
        target == [k \in 1 .. Len(indices) |->
                        WindowTarget(graph_signal_matrix, indices[k][1], indices[k][2])]
    IN IF Len(indices) = 0
       THEN [raised |-> TRUE, features |-> <<>>, target |-> <<>>]
       ELSE [raised |-> FALSE, features |-> features, target |-> target]

Dataset(r) == [features |-> r.features, target |-> r.target]

InitData ==
    /\ GraphIdle
    /\ TrainIdle
    /\ \E w \in WindowConfigs :
        /\ num_points_for_train = w[1]
        /\ num_points_for_predict = w[2]
    /\ dpc = "load"
    /\ X = NoSignal
    /\ split_line1 = 0
    /\ split_line2 = 0
    /\ train_original_data = NoSignal
    /\ val_original_data = NoSignal
    /\ test_original_data = NoSignal
    /\ training_set = NoDataset
    /\ val_set = NoDataset
    /\ testing_set = NoDataset
    /\ dexc = "none"

\* data_preprocess, the graph signal part: X of T samples per vertex and feature
LoadSignal ==
    /\ dpc = "load"
    /\ \E T \in 0 .. MaxT : X' = GraphSignal(T)
    /\ dpc' = "split"
    /\ UNCHANGED <<split_line1, split_line2, train_original_data, val_original_data,
                   test_original_data, training_set, val_set, testing_set, dexc>>
    /\ UNCHANGED <<graphVars, configVars, trainVars>>

\* training: validation: testing = 6: 2: 2
SplitData ==
    /\ dpc = "split"
    /\ split_line1' = SplitLine(Shape2(X), 6)
    /\ split_line2' = SplitLine(Shape2(X), 8)
    /\ train_original_data' = TimeSlice(X, 0, split_line1')
    /\ val_original_data' = TimeSlice(X, split_line1', split_line2')
    /\ test_original_data' = TimeSlice(X, split_line2', Shape2(X))
    /\ dpc' = "build_training"
    /\ UNCHANGED <<X, training_set, val_set, testing_set, dexc>>
    /\ UNCHANGED <<graphVars, configVars, trainVars>>

BuildTraining ==
    /\ dpc = "build_training"
    /\ LET r == build_dataset(train_original_data)
       IN IF r.raised
          THEN /\ dpc' = "raised"
               /\ dexc' = "ValueError"
               /\ UNCHANGED training_set
          ELSE /\ dpc' = "build_val"
               /\ training_set' = Dataset(r)
               /\ UNCHANGED dexc
    /\ UNCHANGED <<X, split_line1, split_line2, train_original_data, val_original_data,
                   test_original_data, val_set, testing_set>>
    /\ UNCHANGED <<graphVars, configVars, trainVars>>

BuildValidation ==
    /\ dpc = "build_val"
    /\ LET r == build_dataset(val_original_data)
       IN IF r.raised
          THEN /\ dpc' = "raised"
               /\ dexc' = "ValueError"
               /\ UNCHANGED val_set
          ELSE /\ dpc' = "build_testing"
               /\ val_set' = Dataset(r)
               /\ UNCHANGED dexc
    /\ UNCHANGED <<X, split_line1, split_line2, train_original_data, val_original_data,
                   test_original_data, training_set, testing_set>>
    /\ UNCHANGED <<graphVars, configVars, trainVars>>

BuildTesting ==
    /\ dpc = "build_testing"
    /\ LET r == build_dataset(test_original_data)
       IN IF r.raised
          THEN /\ dpc' = "raised"
               /\ dexc' = "ValueError"
               /\ UNCHANGED testing_set
          ELSE /\ dpc' = "built"
               /\ testing_set' = Dataset(r)
               /\ UNCHANGED dexc
    /\ UNCHANGED <<X, split_line1, split_line2, train_original_data, val_original_data,
                   test_original_data, training_set, val_set>>
    /\ UNCHANGED <<graphVars, configVars, trainVars>>

NextData == LoadSignal \/ SplitData \/ BuildTraining \/ BuildValidation \/ BuildTesting

SpecData == InitData /\ [][NextData]_vars

\* ---------------------------------------------------- claims about SpecData
Span == num_points_for_train + num_points_for_predict
AfterSplit == dpc \notin {"load", "split"}

\* ds holds exactly the windows of signal M, in increasing start order:
\* window i has history M[:, :, i : i+H] with the feature axis first and
\* target M[:, 0, i+H : i+H+P]
WindowsOf(M, ds) ==
    LET T == Shape2(M)
        n == T - Span + 1
    IN /\ Len(ds.features) = n
       /\ Len(ds.target) = n
       /\ \A i \in 0 .. (n - 1) :
            /\ DOMAIN ds.features[i + 1] = Features
            /\ \A f \in Features :
                /\ DOMAIN ds.features[i + 1][f] = Vertices
                /\ \A v \in Vertices :
                    /\ Len(ds.features[i + 1][f][v]) = num_points_for_train
                    /\ \A k \in 1 .. num_points_for_train :
                        ds.features[i + 1][f][v][k] = M[v][f][i + k]
            /\ DOMAIN ds.target[i + 1] = Vertices
            /\ \A v \in Vertices :
                /\ Len(ds.target[i + 1][v]) = num_points_for_predict
                /\ \A k \in 1 .. num_points_for_predict :
                    ds.target[i + 1][v][k] = M[v][0][i + num_points_for_train + k]

\* C4: whenever a partition has T >= H+P time steps, build_dataset returns
\* (does not raise) exactly T-(H+P)+1 samples in increasing start order, sample
\* i having history X[:, :, i:i+H] transposed to features x vertices x H and
\* target X[:, 0, i+H:i+H+P] (first feature only, vertices x P).
C4_WindowsExact ==
    /\ (dpc \in {"build_val", "build_testing", "built", "raised"}
            /\ Shape2(train_original_data) >= Span)
        => (training_set # NoDataset /\ WindowsOf(train_original_data, training_set))
    /\ (dpc \in {"build_testing", "built", "raised"} /\ training_set # NoDataset
            /\ Shape2(val_original_data) >= Span)
        => (val_set # NoDataset /\ WindowsOf(val_original_data, val_set))
    /\ (dpc \in {"built", "raised"} /\ val_set # NoDataset
            /\ Shape2(test_original_data) >= Span)
        => (testing_set # NoDataset /\ WindowsOf(test_original_data, testing_set))

C4_Witness ==
    /\ dpc = "built"
    /\ num_points_for_predict = 2
    /\ Len(training_set.features) > 3
    /\ Len(testing_set.target) > 1

\* C5: with a 20-step signal, history_length 5 and prediction_length 1, every
\* partition yields at least one sample and the pipeline reaches training
\* without raising.
C5_PipelineCompletes ==
    (Shape2(X) = 20 /\ num_points_for_train = 5 /\ num_points_for_predict = 1)
        => dpc # "raised"

\* the time indices of the readings held in a partition or in a sample
PartitionTimes(M) ==
    {TimeOf(M[v][f][k]) : v \in Vertices, f \in Features, k \in 1 .. Shape2(M)}
SampleTimes(ds, i) ==
    UNION { {TimeOf(ds.features[i][f][v][k]) : k \in 1 .. Len(ds.features[i][f][v])}
              : f \in Features, v \in Vertices }
    \cup UNION { {TimeOf(ds.target[i][v][k]) : k \in 1 .. Len(ds.target[i][v])}
              : v \in Vertices }
\* partition M holds, per vertex and feature, the readings of times lo .. hi-1 in order
HoldsRange(M, lo, hi) ==
    \A v \in Vertices, f \in Features :
        M[v][f] = [k \in 1 .. (hi - lo) |-> Cell(v, f, lo + k - 1)]
WindowsInside(ds, lo, hi) ==
    \A i \in 1 .. Len(ds.features) :
        /\ SampleTimes(ds, i) \subseteq lo .. (hi - 1)
        /\ Cardinality(SampleTimes(ds, i)) = Span
Within1(len, T, tenths) == (10 * len - tenths * T < 10) /\ (tenths * T - 10 * len < 10)

\* C6: the partitions split at int(0.6*T) and int(0.8*T) are time-contiguous,
\* pairwise disjoint, cover all T steps in order, have lengths 60/20/20 for
\* T = 100 and within 1 of 0.6T/0.2T/0.2T in general, and every sample window
\* lies inside its partition's time range.
C6_PartitionsDisjointCover ==
    AfterSplit =>
        LET T == Shape2(X)
            a == Shape2(train_original_data)
            b == Shape2(val_original_data)
            c == Shape2(test_original_data)
        IN /\ HoldsRange(train_original_data, 0, a)
           /\ HoldsRange(val_original_data, a, a + b)
           /\ HoldsRange(test_original_data, a + b, T)
           /\ a + b + c = T
           /\ PartitionTimes(train_original_data) \cap PartitionTimes(val_original_data) = {}
           /\ PartitionTimes(val_original_data) \cap PartitionTimes(test_original_data) = {}
           /\ PartitionTimes(train_original_data) \cap PartitionTimes(test_original_data) = {}
           /\ Within1(a, T, 6) /\ Within1(b, T, 2) /\ Within1(c, T, 2)
           /\ (T = 100 => (a = 60 /\ b = 20 /\ c = 20))
           /\ WindowsInside(training_set, 0, a)
           /\ WindowsInside(val_set, a, a + b)
           /\ WindowsInside(testing_set, a + b, T)

C6_Witness ==
    /\ dpc = "built"
    /\ Shape2(X) = 100
    /\ Len(training_set.features) > 0
    /\ Len(val_set.features) > 0
    /\ Len(testing_set.features) > 0

\* ------------------------------------------- data_preprocess: the adjacency
\* floating-point values of the normalized matrix: NaN, 0.0, or exp(-a/b) with
\* a/b >= 0 in lowest terms (exp(-0/1) is 1.0)
NaN == <<"nan", 0, 1>>
Zero == <<"zero", 0, 1>>
One == <<"exp", 0, 1>>

RECURSIVE Gcd(_, _)
Gcd(a, b) == IF b = 0 THEN a ELSE Gcd(b, a % b)

RECURSIVE SumSeq(_)
SumSeq(s) == IF s = <<>> THEN 0 ELSE Head(s) + SumSeq(Tail(s))

\* A.flatten(): the rows of A one after the other
Flatten(M) ==
    [k \in 1 .. (num_of_vertices * num_of_vertices) |->
        M[(k - 1) \div num_of_vertices][(k - 1) % num_of_vertices]]

\* tmp[tmp != 0]
NonZero(s) == SelectSeq(s, LAMBDA d : d # 0)

\* np.var: the mean of the squared deviations from the mean, as the rational
\* (n * sum(x^2) - sum(x)^2) / n^2; of no values it is NaN (with a warning)
Variance(s) ==
    LET n == Len(s)
        sum == SumSeq(s)
        sumsq == SumSeq([k \in 1 .. n |-> s[k] * s[k]])
    IN IF n = 0 THEN NaN ELSE <<"num", n * sumsq - sum * sum, n * n>>

\* np.exp(-(d ** 2) / v): -(0)/0 and anything with NaN is NaN, -(d^2)/0 is -inf
\* and exp(-inf) is 0.0
GaussianKernel(d, v) ==
    IF v = NaN THEN NaN
    ELSE IF v[2] = 0 THEN (IF d = 0 THEN NaN ELSE Zero)
    ELSE LET a == d * d * v[3]
             b == v[2]
             g == Gcd(a, b)
         IN <<"exp", a \div g, b \div g>>

\* x < epsilon (a comparison with NaN is False)
LessThanEpsilon(x) ==
    CASE x = NaN -> FALSE
      [] x = Zero -> TRUE
      [] OTHER -> x[2] * Micro > Ln2Micro * x[3]

\* A[A < epsilon] = 0
Threshold(x) == IF LessThanEpsilon(x) THEN Zero ELSE x

\* a non-negative numpy index of an axis of length num_of_vertices is in range
\* when below the length (IndexError otherwise)
InRange(i) == i < num_of_vertices

\* A[x, y] = dis; A[y, x] = dis
SetBoth(M, x, y, dis) ==
    LET M1 == [M EXCEPT ![x][y] = dis]
    IN [M1 EXCEPT ![y][x] = dis]

InitGraph ==
    /\ DataIdle
    /\ TrainIdle
    /\ num_points_for_train = DefaultTrainPoints
    /\ num_points_for_predict = DefaultPredictPoints
    /\ gpc = "rows"
    /\ A = [i \in Vertices |-> [j \in Vertices |-> 0]]
    /\ rows = 0
    /\ tmp = <<>>
    /\ var = NaN
    /\ gexc = "none"

\* one iteration of `for x, y, dis in distance.values`
ReadRow ==
    /\ gpc = "rows"
    /\ rows < MaxRows
    /\ \E x \in 0 .. num_of_vertices, y \in 0 .. num_of_vertices, dis \in 0 .. MaxDist :
        IF InRange(x) /\ InRange(y)
        THEN /\ A' = SetBoth(A, x, y, dis)
             /\ rows' = rows + 1
             /\ UNCHANGED <<gpc, gexc>>
        ELSE /\ gpc' = "raised"
             /\ gexc' = "IndexError"
             /\ UNCHANGED <<A, rows>>
    /\ UNCHANGED <<tmp, var>>
    /\ UNCHANGED <<configVars, dataVars, trainVars>>

\* after the last row: the variance of the nonzero distances, the Gaussian
\* kernel and the threshold; A is returned
Normalize ==
    /\ gpc = "rows"
    /\ tmp' = Flatten(A)
    /\ var' = Variance(NonZero(tmp'))
    /\ A' = [i \in Vertices |-> [j \in Vertices |->
                Threshold(GaussianKernel(A[i][j], var'))]]
    /\ gpc' = "returned"
    /\ UNCHANGED <<rows, gexc>>
    /\ UNCHANGED <<configVars, dataVars, trainVars>>

NextGraph == ReadRow \/ Normalize

SpecGraph == InitGraph /\ [][NextGraph]_vars

\* ---------------------------------------------------- claims about SpecGraph
\* IEEE equality: NaN equals nothing
FloatEq(x, y) == x # NaN /\ y # NaN /\ x = y

\* the distance that was read for cell (i, j): tmp is the flattened raw matrix
RawDistance(i, j) == tmp[i * num_of_vertices + j + 1]

\* C7: the adjacency matrix returned for distance triples with indices in
\* range is symmetric and has zero diagonal. Stated for the inputs on which
\* the kernel is well defined (a positive variance of the nonzero distances)
\* and that give no vertex a nonzero distance to itself.
C7_SymmetricZeroDiagonal ==
    (gpc = "returned" /\ var # NaN /\ var[2] > 0
        /\ \A i \in Vertices : RawDistance(i, i) = 0) =>
        /\ \A i \in Vertices, j \in Vertices : FloatEq(A[i][j], A[j][i])
        /\ \A i \in Vertices : A[i][i] = Zero

\* C8: data_preprocess fails (InvalidGraphError) when every off-diagonal
\* distance is zero or a vertex index is not below num_of_vertices; it never
\* returns a matrix built from an undefined variance. A run that returns has
\* therefore read a nonzero off-diagonal distance and computed a variance, and
\* a run that read an index >= num_of_vertices has raised (ReadRow raises
\* IndexError there, so only the first part can fail).
C8_InvalidGraphRejected ==
    gpc = "returned" =>
        /\ \E i \in Vertices, j \in Vertices : i # j /\ RawDistance(i, j) # 0
        /\ var # NaN

\* --------------------------------------------------------------- train_model
RatMul(p, q) == <<p[1] * q[1], p[2] * q[2]>>
RatEq(p, q) == p[1] * q[2] = q[1] * p[2]
RECURSIVE RatPow(_, _)
RatPow(p, k) == IF k = 0 THEN <<1, 1>> ELSE RatMul(p, RatPow(p, k - 1))

\* number of samples build_dataset makes of a partition of len time steps
NumSamples(len) == len - (num_points_for_train + num_points_for_predict) + 1

\* batches a DataLoader yields for n samples (the last one may be smaller)
NumBatches(n) == (n + batch_size - 1) \div batch_size

\* sum(tmp) / len(tmp) of the losses of one phase of one epoch
MeanLoss(losses) == [of |-> losses, batches |-> Len(losses)]

\* 'stgcn_params/stgcn.params_%s' % (epoch)
Filename(e) == <<"stgcn_params/stgcn.params_", e>>

\* faulty variant: a checkpoint is also written after the last epoch
CheckpointDue_AlsoAtEnd(e) == (e + 1) % checkpoint_interval = 0 \/ e + 1 = epochs

\* (epoch + 1) % 5 == 0
CheckpointDue(e) == (e + 1) % checkpoint_interval = 0

\* faulty variant: the decay is applied at the start of an interval (epoch % decay_interval)
DecayDue_OffByOne(e) == e % decay_interval = 0

\* (epoch + 1) % decay_interval == 0
DecayDue(e) == (e + 1) % decay_interval = 0

\* the state on entry to train_model: dataloaders over the samples that
\* build_dataset made of the three partitions of a T-step signal (every
\* partition gave at least one sample, or build_dataset had raised), the
\* trainer at learning_rate, and the configured number of epochs
Init ==
    /\ GraphIdle
    /\ DataIdle
    /\ num_points_for_train = DefaultTrainPoints
    /\ num_points_for_predict = DefaultPredictPoints
    /\ \E T \in 0 .. MaxT :
        /\ n_train = NumSamples(SplitLine(T, 6))
        /\ n_val = NumSamples(SplitLine(T, 8) - SplitLine(T, 6))
        /\ n_test = NumSamples(T - SplitLine(T, 8))
    /\ n_train >= 1 /\ n_val >= 1 /\ n_test >= 1
    /\ epochs \in 0 .. MaxEpochs
    /\ pc = "for"
    /\ epoch = 0
    /\ bi = 0
    /\ train_loss_list_tmp = <<>>
    /\ val_loss_list_tmp = <<>>
    /\ test_loss_list_tmp = <<>>
    /\ train_loss_list = <<>>
    /\ val_loss_list = <<>>
    /\ test_loss_list = <<>>
    /\ lr = learning_rate
    /\ params = 0
    /\ step_lr = learning_rate
    /\ step_epoch = 0
    /\ checkpoints = <<>>
    /\ results_log = <<>>
    /\ exc = "none"

\* faulty variant: range(epochs + 1), one epoch too many
MoreEpochs_OneTooMany(e) == e <= epochs

\* range(epochs) has an element left after e iterations
MoreEpochs(e) == e < epochs

\* for epoch in range(epochs): the next epoch starts, or the lists are returned
\* (epoch counts the iterations made)
ForEpoch ==
    /\ pc = "for"
    /\ IF MoreEpochs(epoch)
       THEN /\ pc' = "train"
            /\ bi' = 0
            /\ train_loss_list_tmp' = <<>>
       ELSE /\ pc' = "done"
            /\ UNCHANGED <<bi, train_loss_list_tmp>>
    /\ UNCHANGED <<epochs, epoch, n_train, n_val, n_test,
                   val_loss_list_tmp, test_loss_list_tmp,
                   train_loss_list, val_loss_list, test_loss_list,
                   lr, params, step_lr, step_epoch, checkpoints, results_log, exc>>
    /\ UNCHANGED <<graphVars, configVars, dataVars>>

\* one training batch: forward under autograd.record, backward, the loss is
\* appended, trainer.step updates the parameters at the current learning rate
TrainBatch ==
    /\ pc = "train"
    /\ bi < NumBatches(n_train)
    /\ train_loss_list_tmp' = Append(train_loss_list_tmp, <<epoch, bi>>)
    /\ params' = params + 1
    /\ step_lr' = lr
    /\ step_epoch' = epoch
    /\ bi' = bi + 1
    /\ UNCHANGED <<pc, epochs, epoch, n_train, n_val, n_test,
                   val_loss_list_tmp, test_loss_list_tmp,
                   train_loss_list, val_loss_list, test_loss_list,
                   lr, checkpoints, results_log, exc>>
    /\ UNCHANGED <<graphVars, configVars, dataVars>>

\* the training dataloader is exhausted: the epoch's mean training loss
TrainMean ==
    /\ pc = "train"
    /\ bi = NumBatches(n_train)
    /\ IF Len(train_loss_list_tmp) = 0
       THEN /\ pc' = "raised"
            /\ exc' = "ZeroDivisionError"
            /\ UNCHANGED <<train_loss_list, bi, val_loss_list_tmp>>
       ELSE /\ train_loss_list' = Append(train_loss_list, MeanLoss(train_loss_list_tmp))
            /\ pc' = "validate"
            /\ bi' = 0
            /\ val_loss_list_tmp' = <<>>
            /\ UNCHANGED exc
    /\ UNCHANGED <<epochs, epoch, n_train, n_val, n_test,
                   train_loss_list_tmp, test_loss_list_tmp,
                   val_loss_list, test_loss_list,
                   lr, params, step_lr, step_epoch, checkpoints, results_log>>
    /\ UNCHANGED <<graphVars, configVars, dataVars>>

\* faulty variant: the validation loop also takes an optimizer step
ValBatch_WithStep ==
    /\ pc = "validate"
    /\ bi < NumBatches(n_val)
    /\ val_loss_list_tmp' = Append(val_loss_list_tmp, <<epoch, bi>>)
    /\ params' = params + 1
    /\ step_lr' = lr
    /\ step_epoch' = epoch
    /\ bi' = bi + 1
    /\ UNCHANGED <<pc, epochs, epoch, n_train, n_val, n_test,
                   train_loss_list_tmp, test_loss_list_tmp,
                   train_loss_list, val_loss_list, test_loss_list,
                   lr, checkpoints, results_log, exc>>
    /\ UNCHANGED <<graphVars, configVars, dataVars>>

\* one validation batch: forward and loss only
ValBatch ==
    /\ pc = "validate"
    /\ bi < NumBatches(n_val)
    /\ val_loss_list_tmp' = Append(val_loss_list_tmp, <<epoch, bi>>)
    /\ bi' = bi + 1
    /\ UNCHANGED <<pc, epochs, epoch, n_train, n_val, n_test,
                   train_loss_list_tmp, test_loss_list_tmp,
                   train_loss_list, val_loss_list, test_loss_list,
                   lr, params, step_lr, step_epoch, checkpoints, results_log, exc>>
    /\ UNCHANGED <<graphVars, configVars, dataVars>>

ValMean ==
    /\ pc = "validate"
    /\ bi = NumBatches(n_val)
    /\ IF Len(val_loss_list_tmp) = 0
       THEN /\ pc' = "raised"
            /\ exc' = "ZeroDivisionError"
            /\ UNCHANGED <<val_loss_list, bi, test_loss_list_tmp>>
       ELSE /\ val_loss_list' = Append(val_loss_list, MeanLoss(val_loss_list_tmp))
            /\ pc' = "test"
            /\ bi' = 0
            /\ test_loss_list_tmp' = <<>>
            /\ UNCHANGED exc
    /\ UNCHANGED <<epochs, epoch, n_train, n_val, n_test,
                   train_loss_list_tmp, val_loss_list_tmp,
                   train_loss_list, test_loss_list,
                   lr, params, step_lr, step_epoch, checkpoints, results_log>>
    /\ UNCHANGED <<graphVars, configVars, dataVars>>

\* one testing batch: forward and loss only
TestBatch ==
    /\ pc = "test"
    /\ bi < NumBatches(n_test)
    /\ test_loss_list_tmp' = Append(test_loss_list_tmp, <<epoch, bi>>)
    /\ bi' = bi + 1
    /\ UNCHANGED <<pc, epochs, epoch, n_train, n_val, n_test,
                   train_loss_list_tmp, val_loss_list_tmp,
                   train_loss_list, val_loss_list, test_loss_list,
                   lr, params, step_lr, step_epoch, checkpoints, results_log, exc>>
    /\ UNCHANGED <<graphVars, configVars, dataVars>>

TestMean ==
    /\ pc = "test"
    /\ bi = NumBatches(n_test)
    /\ IF Len(test_loss_list_tmp) = 0
       THEN /\ pc' = "raised"
            /\ exc' = "ZeroDivisionError"
            /\ UNCHANGED test_loss_list
       ELSE /\ test_loss_list' = Append(test_loss_list, MeanLoss(test_loss_list_tmp))
            /\ pc' = "log"
            /\ UNCHANGED exc
    /\ UNCHANGED <<epochs, epoch, n_train, n_val, n_test, bi,
                   train_loss_list_tmp, val_loss_list_tmp, test_loss_list_tmp,
                   train_loss_list, val_loss_list,
                   lr, params, step_lr, step_epoch, checkpoints, results_log>>
    /\ UNCHANGED <<graphVars, configVars, dataVars>>

\* the epoch's three losses are printed ('current epoch is epoch + 1') and
\* appended to results.log
LogEpoch ==
    /\ pc = "log"
    /\ results_log' = Append(results_log,
            [current_epoch |-> epoch + 1,
             training |-> train_loss_list[Len(train_loss_list)],
             validation |-> val_loss_list[Len(val_loss_list)],
             testing |-> test_loss_list[Len(test_loss_list)]])
    /\ pc' = "checkpoint"
    /\ UNCHANGED <<epochs, epoch, n_train, n_val, n_test, bi,
                   train_loss_list_tmp, val_loss_list_tmp, test_loss_list_tmp,
                   train_loss_list, val_loss_list, test_loss_list,
                   lr, params, step_lr, step_epoch, checkpoints, exc>>
    /\ UNCHANGED <<graphVars, configVars, dataVars>>

\* if (epoch + 1) % 5 == 0: net.save_parameters(filename); the write succeeds,
\* or fails and its exception leaves train_model (there is no handler)
Checkpoint ==
    /\ pc = "checkpoint"
    /\ \/ /\ ~CheckpointDue(epoch)
          /\ pc' = "decay"
          /\ UNCHANGED <<checkpoints, exc>>
       \/ /\ CheckpointDue(epoch)
          /\ checkpoints' = Append(checkpoints,
                                   [name |-> Filename(epoch), saved |-> params])
          /\ pc' = "decay"
          /\ UNCHANGED exc
       \/ /\ CheckpointDue(epoch)
          /\ pc' = "raised"
          /\ exc' = "save_parameters"
          /\ UNCHANGED checkpoints
    /\ UNCHANGED <<epochs, epoch, n_train, n_val, n_test, bi,
                   train_loss_list_tmp, val_loss_list_tmp, test_loss_list_tmp,
                   train_loss_list, val_loss_list, test_loss_list,
                   lr, params, step_lr, step_epoch, results_log>>
    /\ UNCHANGED <<graphVars, configVars, dataVars>>

\* if (epoch + 1) % decay_interval == 0: the learning rate is multiplied by
\* decay_rate; the iteration ends
Decay ==
    /\ pc = "decay"
    /\ lr' = IF DecayDue(epoch) THEN RatMul(lr, decay_rate) ELSE lr
    /\ epoch' = epoch + 1
    /\ pc' = "for"
    /\ UNCHANGED <<epochs, n_train, n_val, n_test, bi,
                   train_loss_list_tmp, val_loss_list_tmp, test_loss_list_tmp,
                   train_loss_list, val_loss_list, test_loss_list,
                   params, step_lr, step_epoch, checkpoints, results_log, exc>>
    /\ UNCHANGED <<graphVars, configVars, dataVars>>

Next ==
    \/ ForEpoch
    \/ TrainBatch
    \/ TrainMean
    \/ ValBatch
    \/ ValMean
    \/ TestBatch
    \/ TestMean
    \/ LogEpoch
    \/ Checkpoint
    \/ Decay

Spec == Init /\ [][Next]_vars

\* -------------------------------------------------------- claims about Spec
\* epochs whose train / validate / test phase has finished
TrainPhasesDone == IF pc \in {"for", "train", "done"} THEN epoch ELSE epoch + 1
ValPhasesDone == IF pc \in {"for", "train", "validate", "done"} THEN epoch ELSE epoch + 1
TestPhasesDone ==
    IF pc \in {"for", "train", "validate", "test", "done"} THEN epoch ELSE epoch + 1

\* the k-th entry of a loss list is the mean over the batches of epoch k - 1
MeansOfEpochs(list, n) ==
    \A k \in 1 .. Len(list) :
        /\ list[k].batches = NumBatches(n)
        /\ \A b \in 1 .. list[k].batches : list[k].of[b] = <<k - 1, b - 1>>

C1_State ==
    /\ epoch <= epochs
    /\ Len(train_loss_list) = TrainPhasesDone
    /\ Len(val_loss_list) = ValPhasesDone
    /\ Len(test_loss_list) = TestPhasesDone
    /\ MeansOfEpochs(train_loss_list, n_train)
    /\ MeansOfEpochs(val_loss_list, n_val)
    /\ MeansOfEpochs(test_loss_list, n_test)
    /\ pc = "done" =>
        /\ epoch = epochs
        /\ Len(train_loss_list) = epochs
        /\ Len(val_loss_list) = epochs
        /\ Len(test_loss_list) = epochs
    /\ pc \in {"done", "raised"} \/ ENABLED Next

C1_Step ==
    /\ pc = "for" => pc' \in {"train", "done"}
    /\ pc = "train" => pc' \in {"train", "validate"}
    /\ pc = "validate" => pc' \in {"validate", "test"}
    /\ pc = "test" => pc' \in {"test", "log"}
    /\ pc = "log" => pc' = "checkpoint"
    /\ pc = "checkpoint" => pc' \in {"decay", "raised"}
    /\ pc = "decay" => pc' = "for"
    /\ pc \in {"done", "raised"} => pc' = pc
    /\ epoch' # epoch => (pc = "decay" /\ epoch' = epoch + 1
                            /\ Len(test_loss_list) = epoch + 1)

\* C1: every epoch e in 0..epochs-1 runs train(e), validate(e), test(e) in
\* that order, epoch e+1 never starts before test(e) has finished, the test
\* phase runs in every epoch, and Done is reached after exactly `epochs`
\* epochs with three loss lists of length `epochs`.
C1_PhaseOrder == [](C1_State) /\ [][C1_Step]_vars

C1_Witness ==
    /\ pc = "done"
    /\ epochs = 7
    /\ Len(test_loss_list) = 7
    /\ NumBatches(n_train) = 2

CheckpointTags == {checkpoints[k].name[2] : k \in 1 .. Len(checkpoints)}

\* C2 as stated: a run of 12 epochs leaves checkpoints tagged 5 and 10 only.
C2_TaggedFiveAndTen ==
    (pc = "done" /\ epochs = 12) => CheckpointTags = {5, 10}

\* iterations whose checkpoint step is behind them
CheckpointStepsDone == IF pc = "decay" THEN epoch + 1 ELSE epoch

\* C2 (amended): a checkpoint is written exactly on completing each 5th epoch
\* (the 5th, the 10th, ...; none for the 12th), the k-th one is named with the
\* zero-based loop index 5k - 1 of the epoch just completed (tags 4 and 9 for
\* a run of 12 epochs), and no two checkpoints of a run share a name.
C2_CheckpointNames ==
    /\ Len(checkpoints) = CheckpointStepsDone \div checkpoint_interval
    /\ \A k \in 1 .. Len(checkpoints) :
        checkpoints[k].name = Filename(checkpoint_interval * k - 1)
    /\ \A j \in 1 .. Len(checkpoints), k \in 1 .. Len(checkpoints) :
        checkpoints[j].name = checkpoints[k].name => j = k
    /\ (pc = "done" /\ epochs = 12) => CheckpointTags = {4, 9}

C2_Witness ==
    /\ pc = "done"
    /\ epochs = 12
    /\ Len(checkpoints) = 2

\* the learning rate after n decays-worth of completed epochs
ExpectedLr(n) == RatMul(learning_rate, RatPow(decay_rate, n \div decay_interval))

\* C3: starting at 1e-2 with decay_rate 0.7 and decay_interval 5, after n
\* completed epochs the rate is learning_rate * decay_rate^floor(n / 5)
\* (1e-2 * 0.7^2 after 10 epochs), and every optimizer step of epoch e uses
\* learning_rate * decay_rate^floor(e / 5): a multiplication comes after all
\* steps of the epoch that ends an interval and before any step of the next.
C3_LearningRateSchedule ==
    /\ RatEq(lr, ExpectedLr(epoch))
    /\ params > 0 => RatEq(step_lr, ExpectedLr(step_epoch))
    /\ (pc = "done" /\ epochs = 10) => RatEq(lr, <<49, 10000>>)

C3_Witness ==
    /\ pc = "done"
    /\ epochs = 10
    /\ lr = <<49, 10000>>
    /\ step_epoch = 9
    /\ step_lr = <<7, 1000>>

\* C9: a failed checkpoint write does not abort train_model.
C9_CheckpointFailureTolerated ==
    ~(pc = "raised" /\ exc = "save_parameters")

C10_State ==
    /\ pc \in {"for", "done"} => params = epoch * NumBatches(n_train)
    /\ pc = "train" => params = epoch * NumBatches(n_train) + bi
    /\ pc \in {"validate", "test", "log", "checkpoint", "decay", "raised"}
        => params = (epoch + 1) * NumBatches(n_train)

C10_Step ==
    params' # params =>
        (pc = "train" /\ pc' = "train" /\ params' = params + 1 /\ bi' = bi + 1)

\* C10: the parameters change only by the optimizer step taken once per
\* training batch: validate, test, logging, checkpointing and the decay leave
\* them unchanged, and an epoch makes exactly as many updates as it has
\* training batches.
C10_ParamsOnlyInTrain == [](C10_State) /\ [][C10_Step]_vars

C10_Witness ==
    /\ pc = "done"
    /\ epochs = 10
    /\ NumBatches(n_train) = 2
    /\ params = 20
    /\ Len(checkpoints) = 2

====
